---- MODULE Spec2Model ----
(***************************************************************************)
(* Model of the blog pipeline scripts: scripts/select_topic.py,            *)
(* scripts/generate_draft.py and scripts/reset_topics.py.                  *)
(*                                                                         *)
(* A file is a sequence of length 0 (the file does not exist) or 1 (its    *)
(* parsed JSON content).  A topic is a JSON object: a function from key    *)
(* names to values, so optional keys (used_at, draft_path, stats) are      *)
(* keys that are or are not in its DOMAIN.  datetime.now().isoformat() is  *)
(* the integer clock: ISO strings of one width order as the instants do,   *)
(* and 0 stands for the '' default of x.get('used_at', '').  Weights are   *)
(* in hundredths (1.0 = 100), all of them exact in binary floating point.  *)
(***************************************************************************)
EXTENDS Integers, Sequences, FiniteSets, TLC

VARIABLES
    topics_json,     \* config/topics.json: <<>> or <<[topics, last_updated]>>
    selected_json,   \* .selected_topic.json: <<>> or <<topic>>
    drafts,          \* the draft directories under drafts/
    clock,           \* the last instant datetime.now() has returned
    last,            \* history: the last command run, its inputs and outcome
    streak,          \* history: the select runs since the last other command
    marks            \* history: id -> number of times marked 'used' since reset

vars == <<topics_json, selected_json, drafts, clock, last, streak, marks>>

----------------------------------------------------------------------------
(* Bounds *)

\* number of topics of the registry in the pipeline specifications
MaxTopics == 3
\* number of topics of the registry in the weighting specification
MaxWeighted == 5
\* instants the clock may reach
MaxClock == 4

(* Program constants *)

\* used_topics = sorted(...)[:3]
RecentCount == 3
\* weight = 1.0, in hundredths
BaseWeight == 100

----------------------------------------------------------------------------
(* JSON objects *)

Get(t, key, default) == IF key \in DOMAIN t THEN t[key] ELSE default

Put(t, key, v) == [k \in DOMAIN t \cup {key} |-> IF k = key THEN v ELSE t[k]]

Del(t, keys) == [k \in DOMAIN t \ keys |-> t[k]]

Exists(file) == Len(file) = 1

Range(s) == {s[i] : i \in DOMAIN s}

----------------------------------------------------------------------------
(* scripts/select_topic.py *)

\* available = [t for t in data['topics'] if t['status'] == 'available']
AvailableAll(data) == data.topics
Available(data) == SelectSeq(data.topics, LAMBDA t : t.status = "available")

\* key=lambda x: x.get('used_at', '')
UsedAtKey(t) == Get(t, "used_at", 0)

\* sorted(..., reverse=True) is stable: of two equal keys the one that comes
\* first in the input comes first in the output
RECURSIVE InsertDesc(_, _)
InsertDesc(s, t) ==
    IF s = <<>> THEN <<t>>
    ELSE IF UsedAtKey(Head(s)) >= UsedAtKey(t)
         THEN <<Head(s)>> \o InsertDesc(Tail(s), t)
         ELSE <<t>> \o s

RECURSIVE SortedDesc(_)
SortedDesc(s) ==
    IF s = <<>> THEN <<>>
    ELSE InsertDesc(SortedDesc(SubSeq(s, 1, Len(s) - 1)), s[Len(s)])

\* the same sort without reverse=True
RECURSIVE InsertAsc(_, _)
InsertAsc(s, t) ==
    IF s = <<>> THEN <<t>>
    ELSE IF UsedAtKey(Head(s)) <= UsedAtKey(t)
         THEN <<Head(s)>> \o InsertAsc(Tail(s), t)
         ELSE <<t>> \o s

RECURSIVE SortedAsc(_)
SortedAsc(s) ==
    IF s = <<>> THEN <<>>
    ELSE InsertAsc(SortedAsc(SubSeq(s, 1, Len(s) - 1)), s[Len(s)])

Prefix(s, n) == SubSeq(s, 1, IF Len(s) < n THEN Len(s) ELSE n)

\* used_topics = sorted([t ... if t.get('status') == 'used'], ...)[:3]
UsedTopicsOldest(data) ==
    Prefix(SortedAsc(SelectSeq(data.topics, LAMBDA t : Get(t, "status", "") = "used")),
           RecentCount)
UsedTopics(data) ==
    Prefix(SortedDesc(SelectSeq(data.topics, LAMBDA t : Get(t, "status", "") = "used")),
           RecentCount)

\* used_categories = [t['category'] for t in used_topics]
UsedCategories(data) ==
    [i \in DOMAIN UsedTopics(data) |-> UsedTopics(data)[i].category]

\* the body of the loop `for t in available`
Weight(t, used_categories) ==
    LET w0 == BaseWeight
        w1 == IF t.difficulty = "advanced" THEN (w0 * 3) \div 2 ELSE w0
        w2 == IF t.category \in Range(used_categories) THEN w1 \div 2 ELSE w1
    IN  w2

\* weights, in the order of available
Weights(data) ==
    [i \in DOMAIN Available(data) |-> Weight(Available(data)[i], UsedCategories(data))]

\* random.choices(available, weights=weights, k=1)[0]: any element of
\* positive weight may be drawn
Choices(available, weights) ==
    {available[i] : i \in {j \in DOMAIN available : weights[j] > 0}}

----------------------------------------------------------------------------
(* scripts/generate_draft.py *)

\* draft_dir = Path(f"drafts/{date_str}-{topic['id']}")
DraftDir(topic, now) == <<now, topic.id>>

\* the assignments to the matching record t
MarkUsed(t, now, draft_dir) ==
    Put(Put(Put(t, "status", "used"), "used_at", now), "draft_path", draft_dir)

\* for t in data['topics']: if t['id'] == topic['id']: ...; break
\* the first record with the identifier is the one updated
FirstMatch(topics, id) ==
    LET hits == {i \in DOMAIN topics : topics[i].id = id}
    IN  IF hits = {} THEN 0 ELSE CHOOSE i \in hits : \A j \in hits : i <= j

\* update_topic_status without the id test: every record is marked
update_all_topics(data, topic, draft_dir, now) ==
    [topics |-> [i \in DOMAIN data.topics |-> MarkUsed(data.topics[i], now, draft_dir)],
     last_updated |-> now]

\* update_topic_status: the content written back to config/topics.json
update_topic_status(data, topic, draft_dir, now) ==
    [topics |-> [i \in DOMAIN data.topics |->
                    IF i = FirstMatch(data.topics, topic.id)
                    THEN MarkUsed(data.topics[i], now, draft_dir)
                    ELSE data.topics[i]],
     last_updated |-> now]

----------------------------------------------------------------------------
(* scripts/reset_topics.py *)

\* for key in ['selected_at', 'used_at', 'draft_path', 'stats']
UsageKeys == {"selected_at", "used_at", "draft_path", "stats"}

\* reset_topics that only sets the status
reset_status_only(data, now) ==
    [topics |-> [i \in DOMAIN data.topics |-> Put(data.topics[i], "status", "available")],
     last_updated |-> now]

\* reset_topics: the content written back to the file
reset_topics(data, now) ==
    [topics |-> [i \in DOMAIN data.topics |->
                    Del(Put(data.topics[i], "status", "available"), UsageKeys)],
     last_updated |-> now]

----------------------------------------------------------------------------
(* Inputs: the content of config/topics.json and of .selected_topic.json *)

TopicIds == <<"a", "b", "c", "d", "e", "f", "g", "h">>
Titles == <<"A", "B", "C", "D", "E", "F", "G", "H">>
Categories == <<"x", "y">>
Difficulties == <<"advanced", "basic", "intermediate">>

\* an available topic record, the i-th of the registry
Topic(i, category, difficulty) ==
    [id |-> TopicIds[i], title |-> Titles[i], category |-> category,
     difficulty |-> difficulty, keywords |-> <<"flutter", TopicIds[i]>>,
     status |-> "available"]

\* a record of no registry
Stranger ==
    [id |-> "zz", title |-> "ZZ", category |-> "x", difficulty |-> "basic",
     keywords |-> <<"flutter">>, status |-> "available"]

\* the registry of the pipeline: a: advanced/x, b: basic/y, c: intermediate/x, ...
CatalogueTopic(i) ==
    Topic(i, Categories[((i - 1) % 2) + 1], Difficulties[((i - 1) % 3) + 1])

\* each record is available, or was used at instant 1, or was marked used by
\* hand and carries a stats key and no used_at
PipelineTopics(i) ==
    LET t == CatalogueTopic(i)
    IN  {t, MarkUsed(t, 1, DraftDir(t, 1)),
         Put(Put(t, "status", "used"), "stats", [views |-> 0])}

\* used_at of the i-th of n records under each order of the timestamps
Stamp(order, i, n) ==
    CASE order = "none" -> 0
      [] order = "rising" -> i
      [] order = "falling" -> n + 1 - i
      [] order = "tied" -> i % 2

StampOrders == {"none", "rising", "falling", "tied"}

Stamped(t, stamp) ==
    IF stamp = 0 THEN Put(t, "status", "used")
    ELSE MarkUsed(t, stamp, DraftDir(t, stamp))

\* the records of the weighting specification: any category, with any
\* difficulty when available
WeightedTopics(i, n, order) ==
    {Topic(i, c, d) : c \in Range(Categories), d \in {"advanced", "basic"}}
    \cup {Stamped(Topic(i, c, "basic"), Stamp(order, i, n)) : c \in Range(Categories)}

\* the lists of k records, the i-th taken from options[i]
RECURSIVE TopicLists(_, _)
TopicLists(k, options) ==
    IF k = 0 THEN {<<>>}
    ELSE {Append(l, t) : l \in TopicLists(k - 1, options), t \in options[k]}

File(topics, now) == <<[topics |-> topics, last_updated |-> now]>>

\* the registries of n records under the pipeline's catalogue
PipelineFiles(n) ==
    {File(l, 1) : l \in TopicLists(n, [i \in 1..n |-> PipelineTopics(i)])}

\* the registries of n records of the weighting specification
WeightedFiles(n, order) ==
    {File(l, n) : l \in TopicLists(n, [i \in 1..n |-> WeightedTopics(i, n, order)])}

\* the handoff files a command may find: none, a record of the registry, or
\* a record the registry does not have
HandoffFiles(file) ==
    {<<>>, <<Stranger>>} \cup
    (IF Exists(file) THEN {<<t>> : t \in Range(file[1].topics)} ELSE {})

DraftsOf(file) ==
    IF Exists(file)
    THEN {t.draft_path : t \in {u \in Range(file[1].topics) : "draft_path" \in DOMAIN u}}
    ELSE {}

Ids(file) == IF Exists(file) THEN {t.id : t \in Range(file[1].topics)} ELSE {}

MarksOf(file) ==
    IF Exists(file)
    THEN [id \in Ids(file) |->
            Cardinality({i \in DOMAIN file[1].topics :
                           file[1].topics[i].id = id /\ file[1].topics[i].status = "used"})]
    ELSE [id \in {} |-> 0]

NoStreak == [base |-> <<>>, drawn |-> {}, latest |-> ""]

\* the history record of a command: what it found and how it ended
Ran(cmd, exit, err, ret, weights, marked, draft) ==
    [cmd |-> cmd, exit |-> exit, err |-> err,
     pre_topics |-> topics_json, pre_selected |-> selected_json,
     ret |-> ret, weights |-> weights, marked |-> marked, draft |-> draft,
     streak |-> streak, prev |-> <<last.cmd, last.err>>]

InitWith(files, any_handoff, now) ==
    /\ topics_json \in files
    /\ selected_json \in (IF any_handoff THEN HandoffFiles(topics_json) ELSE {<<>>})
    /\ drafts = DraftsOf(topics_json)
    /\ clock = now
    /\ last = [cmd |-> "none", exit |-> 0, err |-> "none",
               pre_topics |-> topics_json, pre_selected |-> selected_json,
               ret |-> <<>>, weights |-> <<>>, marked |-> <<>>, draft |-> <<>>,
               streak |-> NoStreak, prev |-> <<"none", "none">>]
    /\ streak = NoStreak
    /\ marks = MarksOf(topics_json)

\* a pipeline that starts with no handoff file
Init ==
    \/ InitWith({<<>>}, FALSE, 1)
    \/ \E n \in 0..MaxTopics : InitWith(PipelineFiles(n), FALSE, 1)

\* the commands run on any registry and any handoff file
InitAny ==
    \/ InitWith({<<>>}, TRUE, 1)
    \/ \E n \in 0..MaxTopics : InitWith(PipelineFiles(n), TRUE, 1)

\* select run on the registries of the weighting specification
InitWeights ==
    \/ InitWith({<<>>}, FALSE, 0)
    \/ \E n \in 1..MaxWeighted, order \in StampOrders :
          InitWith(WeightedFiles(n, order), FALSE, n)

----------------------------------------------------------------------------
(* The commands *)

\* print(...); sys.exit(1) that first removes the handoff file
FailCleaning(cmd, err) ==
    /\ last' = Ran(cmd, 1, err, <<>>, <<>>, <<>>, <<>>)
    /\ streak' = NoStreak
    /\ selected_json' = <<>>
    /\ UNCHANGED <<topics_json, drafts, clock, marks>>

\* print(...); sys.exit(1): the command ends there and has written nothing
Fail(cmd, err) ==
    /\ last' = Ran(cmd, 1, err, <<>>, <<>>, <<>>, <<>>)
    /\ streak' = NoStreak
    /\ UNCHANGED <<topics_json, selected_json, drafts, clock, marks>>

\* a clean-up that leaves the file
KeepFile(file) == file

\* Path('.selected_topic.json').unlink()
Unlink(file) == <<>>

\* a write that keeps a handoff file that is already there
WriteIfAbsent(file, topic) == IF Exists(file) THEN file ELSE <<topic>>

\* with open('.selected_topic.json', 'w') as f: json.dump(topic, f, indent=2)
WriteHandoff(file, topic) == <<topic>>

\* python scripts/select_topic.py
SelectTopic ==
    \/ /\ ~Exists(topics_json)                      \* not found: sys.exit(1)
       /\ Fail("select", "RegistryNotFound")
    \/ /\ Exists(topics_json)
       /\ Available(topics_json[1]) = <<>>          \* no available topics: sys.exit(1)
       /\ Fail("select", "NoAvailableTopics")
    \/ /\ Exists(topics_json)
       /\ Available(topics_json[1]) # <<>>
       /\ \E topic \in Choices(Available(topics_json[1]), Weights(topics_json[1])) :
            /\ selected_json' = WriteHandoff(selected_json, topic)
            /\ last' = Ran("select", 0, "none", <<topic>>, Weights(topics_json[1]),
                           <<>>, <<>>)
            /\ streak' = [base |-> IF streak.drawn = {} THEN topics_json ELSE streak.base,
                          drawn |-> streak.drawn \cup {topic.id},
                          latest |-> topic.id]
       /\ UNCHANGED <<topics_json, drafts, clock, marks>>

\* what generate_draft depends on outside the two files: the credential, the
\* prompt template and the answer of the service
Environments == [api_key : BOOLEAN, template : BOOLEAN, service : BOOLEAN]

\* generate_draft: the checks in the order the code makes them
GenerateError(env) ==
    IF ~env.api_key THEN "ExternalServiceError"        \* ANTHROPIC_API_KEY not found
    ELSE IF ~env.template THEN "TemplateNotFound"      \* load_prompt_template
    ELSE IF ~env.service THEN "ExternalServiceError"   \* except Exception
    ELSE "none"

\* python scripts/generate_draft.py
GenerateDraft ==
    \/ /\ ~Exists(selected_json)                    \* load_selected_topic: sys.exit(1)
       /\ Fail("generate", "HandoffNotFound")
    \/ /\ Exists(selected_json)                     \* generate_draft: sys.exit(1)
       /\ \E err \in {GenerateError(env) : env \in Environments} \ {"none"} :
            Fail("generate", err)
    \/ /\ Exists(selected_json)
       /\ \E env \in Environments : GenerateError(env) = "none"
       /\ clock < MaxClock
       /\ LET topic == selected_json[1]
              now == clock + 1
              draft_dir == DraftDir(topic, now)
          IN  /\ drafts' = drafts \cup {draft_dir}  \* save_draft
              /\ clock' = now
              /\ streak' = NoStreak
              /\ IF Exists(topics_json)
                 THEN /\ topics_json' =
                            <<update_topic_status(topics_json[1], topic, draft_dir, now)>>
                      /\ selected_json' = Unlink(selected_json)
                      /\ marks' = [id \in DOMAIN marks |->
                                     IF id = topic.id THEN marks[id] + 1 ELSE marks[id]]
                      /\ last' = Ran("generate", 0, "none", <<>>, <<>>, <<topic>>,
                                     <<draft_dir>>)
                 ELSE \* open(topics_path, 'r') raises FileNotFoundError
                      /\ last' = Ran("generate", 1, "RegistryNotFound", <<>>, <<>>,
                                     <<topic>>, <<draft_dir>>)
                      /\ UNCHANGED <<topics_json, selected_json, marks>>

\* python scripts/reset_topics.py
ResetTopics ==
    \/ /\ ~Exists(topics_json)                      \* not found: print, return
       /\ last' = Ran("reset", 0, "RegistryNotFound", <<>>, <<>>, <<>>, <<>>)
       /\ streak' = NoStreak
       /\ UNCHANGED <<topics_json, selected_json, drafts, clock, marks>>
    \/ /\ Exists(topics_json)
       /\ clock < MaxClock
       /\ topics_json' = <<reset_topics(topics_json[1], clock + 1)>>
       /\ clock' = clock + 1
       /\ marks' = [id \in DOMAIN marks |-> 0]
       /\ last' = Ran("reset", 0, "none", <<>>, <<>>, <<>>, <<>>)
       /\ streak' = NoStreak
       /\ UNCHANGED <<selected_json, drafts>>

Next == SelectTopic \/ GenerateDraft \/ ResetTopics

Spec == Init /\ [][Next]_vars

SpecAny == InitAny /\ [][Next]_vars

\* one select run on each registry
NextWeights == last.cmd = "none" /\ SelectTopic

SpecWeights == InitWeights /\ [][NextWeights]_vars

----------------------------------------------------------------------------
(* Properties *)

\* the records of a registry file (none when the file is missing)
Records(file) == IF Exists(file) THEN file[1].topics ELSE <<>>

Before == Records(last.pre_topics)
After == Records(topics_json)

Succeeded(cmd) == last.cmd = cmd /\ last.exit = 0 /\ last.err = "none"

HasAvailable(topics) == \E i \in DOMAIN topics : topics[i].status = "available"

\* C1: on a registry with at least one 'available' record select succeeds and
\* returns a record that the registry holds with status 'available'; the
\* registry file is the same after the run as before, and the handoff file
\* holds the returned record.
C1_SelectFrame ==
    (last.cmd = "select" /\ HasAvailable(Before)) =>
        /\ Succeeded("select")
        /\ Len(last.ret) = 1
        /\ \E i \in DOMAIN Before :
              Before[i] = last.ret[1] /\ Before[i].status = "available"
        /\ topics_json = last.pre_topics
        /\ selected_json = last.ret

\* a select that overwrote another handoff, on a registry with a used record
C1_Witness ==
    /\ Succeeded("select")
    /\ \E i \in DOMAIN Before : Before[i].status = "used"
    /\ Exists(last.pre_selected)
    /\ last.pre_selected # selected_json

\* C2 (as claimed): update_topic_status with an identifier no record has ends
\* with TopicNotFound and leaves the registry file as it was.
C2_UnknownIdFails ==
    (/\ last.cmd = "generate"
     /\ Len(last.marked) = 1
     /\ Exists(last.pre_topics)
     /\ last.marked[1].id \notin Ids(last.pre_topics)) =>
        /\ last.err = "TopicNotFound"
        /\ topics_json = last.pre_topics

\* C3: a select or generate run that ends in a failure leaves the registry
\* file and the handoff file as they were; a select on a registry with no
\* available record fails with NoAvailableTopics.
C3_FailureWritesNothing ==
    /\ (last.cmd \in {"select", "generate"} /\ last.exit # 0) =>
          /\ topics_json = last.pre_topics
          /\ selected_json = last.pre_selected
    /\ (last.cmd = "select" /\ Exists(last.pre_topics) /\ ~HasAvailable(Before)) =>
          last.exit # 0 /\ last.err = "NoAvailableTopics"

\* a generate run that found a handoff and failed on the service
C3_Witness ==
    /\ last.cmd = "generate"
    /\ last.exit # 0
    /\ last.err = "ExternalServiceError"
    /\ Exists(last.pre_selected)
    /\ Exists(last.pre_topics)

\* C4: update_topic_status on topic A leaves every record with another
\* identifier as it was, and changes at most one record.
C4_OtherRecordsKept ==
    (last.cmd = "generate" /\ Len(last.marked) = 1 /\ Exists(last.pre_topics)) =>
        /\ Len(After) = Len(Before)
        /\ \A i \in DOMAIN Before :
              Before[i].id # last.marked[1].id => After[i] = Before[i]
        /\ Cardinality({i \in DOMAIN Before : After[i] # Before[i]}) <= 1

\* a record of a registry of several records was marked
C4_Witness ==
    /\ Succeeded("generate")
    /\ Len(Before) >= 2
    /\ \E i \in DOMAIN Before :
          Before[i].id = last.marked[1].id /\ After[i] # Before[i]

UsedIndexes(topics) == {i \in DOMAIN topics : topics[i].status = "used"}

\* the timestamp of a used record, a record without one being the earliest
UsedAt(t) == IF "used_at" \in DOMAIN t THEN t.used_at ELSE 0

\* R is a choice of the (at most) 3 used records with the latest timestamps
Latest(topics, R) ==
    LET U == UsedIndexes(topics)
    IN  /\ R \subseteq U
        /\ Cardinality(R) = (IF Cardinality(U) < 3 THEN Cardinality(U) ELSE 3)
        /\ \A r \in R, o \in U \ R : UsedAt(topics[r]) >= UsedAt(topics[o])

\* 1.0, times 1.5 if advanced, times 0.5 if the category is recent (hundredths)
ClaimedWeight(t, recent) ==
    25 * (IF t.difficulty = "advanced" THEN 3 ELSE 2)
       * (IF t.category \in recent THEN 1 ELSE 2)

\* C5: the weight select gives each available record is 1.0, times 1.5 if its
\* difficulty is 'advanced', times 0.5 if its category is that of one of the 3
\* used records with the latest timestamps; it is one of 1.0, 1.5, 0.5, 0.75;
\* on [a: advanced/x, b: basic/y] with no used record the weights are 1.5, 1.0.
C5_Weights ==
    Succeeded("select") =>
        LET avail == SelectSeq(Before, LAMBDA t : t.status = "available")
        IN  /\ Len(last.weights) = Len(avail)
            /\ \E R \in SUBSET UsedIndexes(Before) :
                  /\ Latest(Before, R)
                  /\ \A k \in DOMAIN avail :
                        last.weights[k] =
                            ClaimedWeight(avail[k], {Before[r].category : r \in R})
            /\ \A k \in DOMAIN last.weights : last.weights[k] \in {100, 150, 50, 75}
            /\ (/\ Len(Before) = 2
                /\ Before[1].difficulty = "advanced" /\ Before[1].category = "x"
                /\ Before[2].difficulty = "basic" /\ Before[2].category = "y"
                /\ UsedIndexes(Before) = {}) => last.weights = <<150, 100>>

\* more than 3 used records, and an available record keeps its full weight
\* though an older used record has its category
C5_Witness ==
    /\ Succeeded("select")
    /\ Cardinality(UsedIndexes(Before)) > 3
    /\ \E i \in DOMAIN Before, u \in UsedIndexes(Before) :
          /\ Before[i].status = "available"
          /\ Before[i].category = Before[u].category
          /\ Before[i].difficulty = "advanced"
          /\ last.weights[Cardinality({j \in 1..i : Before[j].status = "available"})] = 150

\* C6: after reset every record is 'available' and carries no used_at,
\* draft_path or stats; a select that follows weighs every record; a second
\* reset leaves every record as the first left it.
C6_ResetAll ==
    /\ Succeeded("reset") =>
          /\ Len(After) = Len(Before)
          /\ \A i \in DOMAIN After :
                /\ After[i].status = "available"
                /\ DOMAIN After[i] \cap {"used_at", "draft_path", "stats"} = {}
    /\ (last.cmd = "select" /\ last.prev = <<"reset", "none">> /\ Before # <<>>) =>
          Succeeded("select") /\ Len(last.weights) = Len(Before)
    /\ (Succeeded("reset") /\ last.prev = <<"reset", "none">>) => After = Before

\* a reset of a registry with a record used at some instant and a record
\* that carries stats
C6_Witness ==
    /\ Succeeded("reset")
    /\ \E i \in DOMAIN Before : Before[i].status = "used" /\ "used_at" \in DOMAIN Before[i]
    /\ \E i \in DOMAIN Before : "stats" \in DOMAIN Before[i]

\* C7 (as claimed): after every generate run that read a handoff file, the
\* handoff file is absent.
C7_AbsentAfterEveryGenerate ==
    (last.cmd = "generate" /\ Exists(last.pre_selected)) => ~Exists(selected_json)

\* C7 (amended): after every generate run that completes, the handoff file is
\* absent; and a handoff file is written by select alone.
C7_HandoffLifecycle ==
    /\ Succeeded("generate") => ~Exists(selected_json)
    /\ (Exists(selected_json) /\ selected_json # last.pre_selected) => last.cmd = "select"

\* a generate run that completed on the handoff a select had written
C7_Witness ==
    /\ Succeeded("generate")
    /\ last.prev = <<"select", "none">>
    /\ Exists(last.pre_selected)
    /\ ~Exists(selected_json)

\* C8: after k >= 1 select runs in a row and one generate run that completes,
\* the registry has the identifiers it had before the selects, exactly one
\* record, the one the last select drew, went from 'available' to 'used', and
\* the records the earlier selects drew are still 'available'.
C8_SelectRetry ==
    (Succeeded("generate") /\ last.streak.drawn # {}) =>
        LET base == Records(last.streak.base)
        IN  /\ Len(After) = Len(base)
            /\ \A i \in DOMAIN base : After[i].id = base[i].id
            /\ \E i \in DOMAIN base :
                  /\ base[i].id = last.streak.latest
                  /\ base[i].status = "available"
                  /\ After[i].status = "used"
                  /\ \A j \in DOMAIN base \ {i} : After[j] = base[j]
            /\ \A j \in DOMAIN base :
                  base[j].id \in last.streak.drawn \ {last.streak.latest}
                      => After[j].status = "available"

\* the selects drew more than one topic before generate ran
C8_Witness ==
    /\ Succeeded("generate")
    /\ Cardinality(last.streak.drawn) >= 2

\* C9 (as claimed): a command run while the registry file is missing ends
\* with a nonzero exit code.
C9_MissingRegistryExitsNonzero ==
    (last.cmd \in {"select", "generate", "reset"} /\ ~Exists(last.pre_topics)) =>
        last.exit # 0

\* C10: from a start with no handoff file, a handoff file always names a
\* record of the registry whose status is 'available'; generate never writes
\* a draft for a record that is 'used'; between resets no record is marked
\* 'used' twice.
C10_HandoffNamesAvailable ==
    /\ Exists(selected_json) =>
          \E i \in DOMAIN After :
              After[i].id = selected_json[1].id /\ After[i].status = "available"
    /\ (last.cmd = "generate" /\ Len(last.draft) = 1) =>
          /\ \E i \in DOMAIN Before : Before[i].id = last.marked[1].id
          /\ \A i \in DOMAIN Before :
                Before[i].id = last.marked[1].id => Before[i].status = "available"
    /\ \A id \in DOMAIN marks : marks[id] <= 1

\* a select that follows a completed generate: a handoff beside a record
\* that this pipeline marked used
C10_Witness ==
    /\ Succeeded("select")
    /\ last.prev = <<"generate", "none">>
    /\ Exists(selected_json)
    /\ \E i \in DOMAIN After : After[i].status = "used" /\ UsedAt(After[i]) > 1

====
